---- MODULE Spec2Model ----
(***************************************************************************)
(* The request-gating layer of the income-verification server (server.js,  *)
(* src/unnamed/part_000): three fixed-window rate-limit stores, the        *)
(* session store, the global /api middleware, requireAuth, POST /api/auth  *)
(* and POST /api/analyze, and the two sweep timers.                        *)
(*                                                                         *)
(* Time is the value of Date.now() in milliseconds.  Durations and limits  *)
(* are scaled down (AuthWindowMs, GlobalMaxAttempts, ...) so that every    *)
(* window opens, fills and closes inside MaxTime; the code of each handler *)
(* is kept as written.  Node runs a handler without interruption up to its *)
(* first await, so one action is one such run; the reads of Date.now() in  *)
(* one run return the same millisecond.                                    *)
(***************************************************************************)
EXTENDS Integers, Sequences, FiniteSets, TLC

\* ---------------------------------------------------------------- bounds
MaxTime == 4
MaxTokens == 1
MoreTokens == 2
MaxInflight == 2
\* scaled policy values (server.js: 5 / 15 min, 10 / 60 min, 100 / 1 min, 24 h, 1000 ms)
AuthMaxAttempts == 2
AuthWindowMs == 3
AnalyzeMaxAttempts == 2
AnalyzeWindowMs == 2
GlobalMaxAttempts == 3
GlobalWindowMs == 2
SessionTtlMs == 3
MsPerSecond == 2

\* ------------------------------------------------------ program constants
AUTH_RATE_LIMIT == [maxAttempts |-> AuthMaxAttempts, windowMs |-> AuthWindowMs]
ANALYZE_RATE_LIMIT == [maxAttempts |-> AnalyzeMaxAttempts, windowMs |-> AnalyzeWindowMs]
GLOBAL_API_RATE_LIMIT == [maxAttempts |-> GlobalMaxAttempts, windowMs |-> GlobalWindowMs]
SESSION_TTL == SessionTtlMs
GlobalRetryAfterDefault == 60
AnalyzeRetryAfterDefault == 3600
FPL_ADDITIONAL_PERSON_AMOUNT == 5380
FEDERAL_POVERTY_LEVELS == <<15060, 20440, 25820, 31200, 36580, 41960, 47340, 52720>>

\* JavaScript's undefined, for string-valued inputs
Undefined == "<undefined>"

\* ------------------------------------------------------------------ inputs
\* the request headers and connection address that decide the client key;
\* xff is the x-forwarded-for header split at ',', <<>> when it is absent
OneClient == {[cf |-> "a", xff |-> <<>>, ip |-> "b"]}
\* Authorization header: absent, another scheme, or "Bearer <token>";
\* token 0 is a string the server never issued
AuthorizationValues ==
    {[kind |-> "none", token |-> 0], [kind |-> "basic", token |-> 0]}
        \cup {[kind |-> "bearer", token |-> t] : t \in 0..MoreTokens}
\* body of POST /api/auth: no parsed body, or an object with this password
AuthBodies ==
    {[hasBody |-> FALSE, password |-> Undefined]}
        \cup {[hasBody |-> TRUE, password |-> p] : p \in {Undefined, "guess", "hunter2"}}
\* body of POST /api/analyze.  files: undefined, a non-array, or an array of
\* len file objects.  householdSize: x2 is twice the number (2.5 is x2 = 5).
OneFile == [type |-> "array", len |-> 1]
NoFiles == [type |-> "array", len |-> 0]
Size(x2) == [type |-> "number", x2 |-> x2]
FewBodies ==
    {[hasBody |-> FALSE, files |-> [type |-> "undefined", len |-> 0],
      householdSize |-> [type |-> "undefined", x2 |-> 0]],
     [hasBody |-> TRUE, files |-> NoFiles, householdSize |-> Size(2)],
     [hasBody |-> TRUE, files |-> OneFile, householdSize |-> Size(0)],
     [hasBody |-> TRUE, files |-> OneFile, householdSize |-> Size(2)]}

\* every shape of body the validation tells apart: files undefined, a string,
\* [] or one file; householdSize undefined, a string, NaN, 0, 0.5, 1, 2.5, 8, 9
AnalyzeBodies ==
    {[hasBody |-> FALSE, files |-> [type |-> "undefined", len |-> 0],
      householdSize |-> [type |-> "undefined", x2 |-> 0]]}
        \cup {[hasBody |-> TRUE, files |-> f, householdSize |-> h] :
                f \in {[type |-> "undefined", len |-> 0], [type |-> "string", len |-> 1],
                       NoFiles, OneFile},
                h \in {[type |-> "undefined", x2 |-> 0], [type |-> "string", x2 |-> 6],
                       [type |-> "NaN", x2 |-> 0]}
                          \cup {Size(x2) : x2 \in {0, 1, 2, 5, 16, 18}}}

VARIABLES
    env,                 \* process.env: INCOME_VERIFIER_PASSWORD, GEMINI_API_KEY
    listening,           \* the process reached app.listen
    now,                 \* Date.now()
    authAttempts,        \* key -> [count, resetAt]
    analyzeAttempts,
    globalApiAttempts,
    sessions,            \* token -> expiry
    issued,              \* tokens drawn from crypto.randomBytes so far
    inflight,            \* /api/analyze handlers suspended at generateContent
    analyzeTimes         \* history: key -> when its latest requests reached the
                         \* analyze limiter, oldest first, at most maxAttempts of them

vars == <<env, listening, now, authAttempts, analyzeAttempts, globalApiAttempts,
          sessions, issued, inflight, analyzeTimes>>

\* ------------------------------------------------------------ Map helpers
EmptyMap == [k \in {} |-> 0]
Has(map, key) == key \in DOMAIN map
Put(map, key, value) ==
    [k \in DOMAIN map \cup {key} |-> IF k = key THEN value ELSE map[k]]
Delete(map, key) == [k \in DOMAIN map \ {key} |-> map[k]]

Range(seq) == {seq[i] : i \in DOMAIN seq}

\* Math.ceil(a / b) for b > 0
Ceil(a, b) == -((-a) \div b)

\* String.prototype.trim on the header parts the inputs use
Trim(s) == CASE s = " b " -> "b" [] s = " a" -> "a" [] OTHER -> s

\* x || d for a number x: 0 is falsy
OrDefault(x, d) == IF x = 0 THEN d ELSE x
\* a faulty variant: the connection address first, the headers after it
getClientIpByAddress(r) ==
    IF r.ip # Undefined /\ r.ip # "" THEN r.ip
    ELSE IF r.cf # Undefined THEN r.cf
    ELSE IF r.xff # <<>> THEN Trim(r.xff[1])
    ELSE "unknown"

\* -------------------------------------------------------------- getClientIp
getClientIp(r) ==
    IF r.cf # Undefined THEN r.cf
    ELSE IF r.xff # <<>> THEN Trim(r.xff[1])
    ELSE IF r.ip # Undefined /\ r.ip # "" THEN r.ip
    ELSE "unknown"

\* ------------------------------------------------------------ checkRateLimit
\* faulty variants of checkRateLimit: `entry.count > config.maxAttempts`,
checkRateLimitOffByOne(store, key, config, t) ==
    IF ~Has(store, key) \/ t > store[key].resetAt
    THEN [store |-> Put(store, key, [count |-> 1, resetAt |-> t + config.windowMs]),
          result |-> [allowed |-> TRUE, remaining |-> config.maxAttempts - 1]]
    ELSE IF store[key].count > config.maxAttempts
    THEN [store |-> store,
          result |-> [allowed |-> FALSE, remaining |-> 0,
                      retryAfter |-> Ceil(store[key].resetAt - t, MsPerSecond)]]
    ELSE [store |-> [store EXCEPT ![key].count = @ + 1],
          result |-> [allowed |-> TRUE,
                      remaining |-> config.maxAttempts - (store[key].count + 1)]]

\* a denied check that pushes resetAt to now + windowMs,
checkRateLimitSliding(store, key, config, t) ==
    IF ~Has(store, key) \/ t > store[key].resetAt
    THEN [store |-> Put(store, key, [count |-> 1, resetAt |-> t + config.windowMs]),
          result |-> [allowed |-> TRUE, remaining |-> config.maxAttempts - 1]]
    ELSE IF store[key].count >= config.maxAttempts
    THEN [store |-> [store EXCEPT ![key].resetAt = t + config.windowMs],
          result |-> [allowed |-> FALSE, remaining |-> 0,
                      retryAfter |-> Ceil(store[key].resetAt - t, MsPerSecond)]]
    ELSE [store |-> [store EXCEPT ![key].count = @ + 1],
          result |-> [allowed |-> TRUE,
                      remaining |-> config.maxAttempts - (store[key].count + 1)]]

\* and `now >= entry.resetAt` as the test for an expired entry
checkRateLimitResetsAtResetAt(store, key, config, t) ==
    IF ~Has(store, key) \/ t >= store[key].resetAt
    THEN [store |-> Put(store, key, [count |-> 1, resetAt |-> t + config.windowMs]),
          result |-> [allowed |-> TRUE, remaining |-> config.maxAttempts - 1]]
    ELSE IF store[key].count >= config.maxAttempts
    THEN [store |-> store,
          result |-> [allowed |-> FALSE, remaining |-> 0,
                      retryAfter |-> Ceil(store[key].resetAt - t, MsPerSecond)]]
    ELSE [store |-> [store EXCEPT ![key].count = @ + 1],
          result |-> [allowed |-> TRUE,
                      remaining |-> config.maxAttempts - (store[key].count + 1)]]
\* and an allowed check whose increment is lost
checkRateLimitLostUpdate(store, key, config, t) ==
    IF ~Has(store, key) \/ t > store[key].resetAt
    THEN [store |-> Put(store, key, [count |-> 1, resetAt |-> t + config.windowMs]),
          result |-> [allowed |-> TRUE, remaining |-> config.maxAttempts - 1]]
    ELSE IF store[key].count >= config.maxAttempts
    THEN [store |-> store,
          result |-> [allowed |-> FALSE, remaining |-> 0,
                      retryAfter |-> Ceil(store[key].resetAt - t, MsPerSecond)]]
    ELSE [store |-> store,
          result |-> [allowed |-> TRUE,
                      remaining |-> config.maxAttempts - (store[key].count + 1)]]

\* the store after the call and the object returned, t being Date.now()
checkRateLimit(store, key, config, t) ==
    IF ~Has(store, key) \/ t > store[key].resetAt
    THEN [store |-> Put(store, key, [count |-> 1, resetAt |-> t + config.windowMs]),
          result |-> [allowed |-> TRUE, remaining |-> config.maxAttempts - 1]]
    ELSE IF store[key].count >= config.maxAttempts
    THEN [store |-> store,
          result |-> [allowed |-> FALSE, remaining |-> 0,
                      retryAfter |-> Ceil(store[key].resetAt - t, MsPerSecond)]]
    ELSE [store |-> [store EXCEPT ![key].count = @ + 1],
          result |-> [allowed |-> TRUE,
                      remaining |-> config.maxAttempts - (store[key].count + 1)]]

\* ------------------------------------------------- global /api middleware
GlobalHeaders(result) ==
    ("X-RateLimit-Limit" :> GLOBAL_API_RATE_LIMIT.maxAttempts)
        @@ ("X-RateLimit-Remaining" :> result.remaining)

\* the store afterwards, the limiter's result, the headers set, whether
\* next() is called, and the 429 response otherwise
GlobalMiddleware(key) ==
    LET c == checkRateLimit(globalApiAttempts, key, GLOBAL_API_RATE_LIMIT, now) IN
    IF ~c.result.allowed
    THEN [store |-> c.store, result |-> c.result, next |-> FALSE, status |-> 429,
          headers |-> ("Retry-After" :> OrDefault(c.result.retryAfter, GlobalRetryAfterDefault))
                          @@ GlobalHeaders(c.result),
          body |-> [error |-> "Too many requests. Please slow down."]]
    ELSE [store |-> c.store, result |-> c.result, next |-> TRUE, status |-> 0,
          headers |-> GlobalHeaders(c.result), body |-> [error |-> ""]]

\* ---------------------------------------------------------------- requireAuth
\* faulty variants of requireAuth: one that calls next() for every request,
requireAuthOpen(authorization) ==
    [sessions |-> sessions, next |-> TRUE, status |-> 0, body |-> [error |-> ""]]

\* one that rejects with `Date.now() >= expiry`,
requireAuthEarly(authorization) ==
    IF authorization.kind # "bearer"
    THEN [sessions |-> sessions, next |-> FALSE, status |-> 401,
          body |-> [error |-> "Unauthorized"]]
    ELSE IF ~Has(sessions, authorization.token)
            \/ sessions[authorization.token] = 0
            \/ now >= sessions[authorization.token]
    THEN [sessions |-> Delete(sessions, authorization.token), next |-> FALSE,
          status |-> 401, body |-> [error |-> "Session expired"]]
    ELSE [sessions |-> sessions, next |-> TRUE, status |-> 0, body |-> [error |-> ""]]

\* and one without `sessions.delete(token)`
requireAuthKeeps(authorization) ==
    IF authorization.kind # "bearer"
    THEN [sessions |-> sessions, next |-> FALSE, status |-> 401,
          body |-> [error |-> "Unauthorized"]]
    ELSE IF ~Has(sessions, authorization.token)
            \/ sessions[authorization.token] = 0
            \/ now > sessions[authorization.token]
    THEN [sessions |-> sessions, next |-> FALSE,
          status |-> 401, body |-> [error |-> "Session expired"]]
    ELSE [sessions |-> sessions, next |-> TRUE, status |-> 0, body |-> [error |-> ""]]

\* the session store afterwards, whether next() is called, and the 401
\* response otherwise
requireAuth(authorization) ==
    IF authorization.kind # "bearer"
    THEN [sessions |-> sessions, next |-> FALSE, status |-> 401,
          body |-> [error |-> "Unauthorized"]]
    ELSE IF ~Has(sessions, authorization.token)
            \/ sessions[authorization.token] = 0
            \/ now > sessions[authorization.token]
    THEN [sessions |-> Delete(sessions, authorization.token), next |-> FALSE,
          status |-> 401, body |-> [error |-> "Session expired"]]
    ELSE [sessions |-> sessions, next |-> TRUE, status |-> 0, body |-> [error |-> ""]]

\* ------------------------------------------------------------- POST /api/auth
\* a faulty variant of the inline limiter: a denied attempt is counted too
AuthLimiterCountsDenied(key) ==
    IF Has(authAttempts, key)
    THEN IF now < authAttempts[key].resetAt
         THEN [store |-> [authAttempts EXCEPT ![key].count = @ + 1],
               denied |-> authAttempts[key].count >= AUTH_RATE_LIMIT.maxAttempts,
               retryAfter |-> Ceil(authAttempts[key].resetAt - now, MsPerSecond)]
         ELSE [store |-> [authAttempts EXCEPT
                              ![key] = [count |-> 1, resetAt |-> now + AUTH_RATE_LIMIT.windowMs]],
               denied |-> FALSE, retryAfter |-> 0]
    ELSE [store |-> Put(authAttempts, key,
                        [count |-> 1, resetAt |-> now + AUTH_RATE_LIMIT.windowMs]),
          denied |-> FALSE, retryAfter |-> 0]

\* a faulty variant of the inline limiter: a denied attempt restarts the
\* window
AuthLimiterExtends(key) ==
    IF Has(authAttempts, key)
    THEN IF now < authAttempts[key].resetAt
         THEN IF authAttempts[key].count >= AUTH_RATE_LIMIT.maxAttempts
              THEN [store |-> [authAttempts EXCEPT
                                   ![key].resetAt = now + AUTH_RATE_LIMIT.windowMs],
                    denied |-> TRUE,
                    retryAfter |-> Ceil(authAttempts[key].resetAt - now, MsPerSecond)]
              ELSE [store |-> [authAttempts EXCEPT ![key].count = @ + 1],
                    denied |-> FALSE, retryAfter |-> 0]
         ELSE [store |-> [authAttempts EXCEPT
                              ![key] = [count |-> 1, resetAt |-> now + AUTH_RATE_LIMIT.windowMs]],
               denied |-> FALSE, retryAfter |-> 0]
    ELSE [store |-> Put(authAttempts, key,
                        [count |-> 1, resetAt |-> now + AUTH_RATE_LIMIT.windowMs]),
          denied |-> FALSE, retryAfter |-> 0]

\* the inline limiter of the handler: the store afterwards and whether the
\* request is refused
AuthLimiter(key) ==
    IF Has(authAttempts, key)
    THEN IF now < authAttempts[key].resetAt
         THEN IF authAttempts[key].count >= AUTH_RATE_LIMIT.maxAttempts
              THEN [store |-> authAttempts, denied |-> TRUE,
                    retryAfter |-> Ceil(authAttempts[key].resetAt - now, MsPerSecond)]
              ELSE [store |-> [authAttempts EXCEPT ![key].count = @ + 1],
                    denied |-> FALSE, retryAfter |-> 0]
         ELSE [store |-> [authAttempts EXCEPT
                              ![key] = [count |-> 1, resetAt |-> now + AUTH_RATE_LIMIT.windowMs]],
               denied |-> FALSE, retryAfter |-> 0]
    ELSE [store |-> Put(authAttempts, key,
                        [count |-> 1, resetAt |-> now + AUTH_RATE_LIMIT.windowMs]),
          denied |-> FALSE, retryAfter |-> 0]

\* password === INCOME_VERIFIER_PASSWORD
PasswordMatches(password) == password = env.INCOME_VERIFIER_PASSWORD

\* faulty variants of the handler: the password compared before the limiter
\* is consulted,
AuthHandlerPasswordFirst(b, key, headers) ==
    LET lim == AuthLimiter(key)
        token == issued + 1
    IN  IF b.hasBody /\ PasswordMatches(b.password)
        THEN [authAttempts |-> Delete(authAttempts, key),
              sessions |-> Put(sessions, token, now + SESSION_TTL), issued |-> token,
              status |-> 200, headers |-> headers,
              body |-> [success |-> TRUE, token |-> token],
              gates |-> <<"password", "issue">>]
        ELSE IF lim.denied
        THEN [authAttempts |-> lim.store, sessions |-> sessions, issued |-> issued,
              status |-> 429, headers |-> ("Retry-After" :> lim.retryAfter) @@ headers,
              body |-> [error |-> "Too many attempts. Try again later."],
              gates |-> <<"password", "authLimit">>]
        ELSE IF ~b.hasBody
        THEN [authAttempts |-> lim.store, sessions |-> sessions, issued |-> issued,
              status |-> 500, headers |-> headers,
              body |-> [error |-> "Internal Server Error"],
              gates |-> <<"authLimit">>]
        ELSE [authAttempts |-> lim.store, sessions |-> sessions, issued |-> issued,
              status |-> 401, headers |-> headers,
              body |-> [success |-> FALSE, error |-> "Invalid password"],
              gates |-> <<"password", "authLimit">>]

\* and a success path without `authAttempts.delete(clientIp)`
AuthHandlerKeepsEntry(b, key, headers) ==
    LET lim == AuthLimiter(key)
        token == issued + 1
    IN  IF lim.denied
        THEN [authAttempts |-> lim.store, sessions |-> sessions, issued |-> issued,
              status |-> 429, headers |-> ("Retry-After" :> lim.retryAfter) @@ headers,
              body |-> [error |-> "Too many attempts. Try again later."],
              gates |-> <<"authLimit">>]
        ELSE IF ~b.hasBody
        THEN [authAttempts |-> lim.store, sessions |-> sessions, issued |-> issued,
              status |-> 500, headers |-> headers,
              body |-> [error |-> "Internal Server Error"],
              gates |-> <<"authLimit">>]
        ELSE IF PasswordMatches(b.password)
        THEN [authAttempts |-> lim.store,
              sessions |-> Put(sessions, token, now + SESSION_TTL), issued |-> token,
              status |-> 200, headers |-> headers,
              body |-> [success |-> TRUE, token |-> token],
              gates |-> <<"authLimit", "password", "issue">>]
        ELSE [authAttempts |-> lim.store, sessions |-> sessions, issued |-> issued,
              status |-> 401, headers |-> headers,
              body |-> [success |-> FALSE, error |-> "Invalid password"],
              gates |-> <<"authLimit", "password">>]
\* and a success path with `authAttempts.clear()`
AuthHandlerClearsAll(b, key, headers) ==
    LET lim == AuthLimiter(key)
        token == issued + 1
    IN  IF lim.denied
        THEN [authAttempts |-> lim.store, sessions |-> sessions, issued |-> issued,
              status |-> 429, headers |-> ("Retry-After" :> lim.retryAfter) @@ headers,
              body |-> [error |-> "Too many attempts. Try again later."],
              gates |-> <<"authLimit">>]
        ELSE IF ~b.hasBody
        THEN [authAttempts |-> lim.store, sessions |-> sessions, issued |-> issued,
              status |-> 500, headers |-> headers,
              body |-> [error |-> "Internal Server Error"],
              gates |-> <<"authLimit">>]
        ELSE IF PasswordMatches(b.password)
        THEN [authAttempts |-> EmptyMap,
              sessions |-> Put(sessions, token, now + SESSION_TTL), issued |-> token,
              status |-> 200, headers |-> headers,
              body |-> [success |-> TRUE, token |-> token],
              gates |-> <<"authLimit", "password", "issue">>]
        ELSE [authAttempts |-> lim.store, sessions |-> sessions, issued |-> issued,
              status |-> 401, headers |-> headers,
              body |-> [success |-> FALSE, error |-> "Invalid password"],
              gates |-> <<"authLimit", "password">>]
\* and a success path that keeps one session only: `sessions.clear()`
\* before `sessions.set(token, ...)`
AuthHandlerSingleSession(b, key, headers) ==
    LET lim == AuthLimiter(key)
        token == issued + 1
    IN  IF lim.denied
        THEN [authAttempts |-> lim.store, sessions |-> sessions, issued |-> issued,
              status |-> 429, headers |-> ("Retry-After" :> lim.retryAfter) @@ headers,
              body |-> [error |-> "Too many attempts. Try again later."],
              gates |-> <<"authLimit">>]
        ELSE IF ~b.hasBody
        THEN [authAttempts |-> lim.store, sessions |-> sessions, issued |-> issued,
              status |-> 500, headers |-> headers,
              body |-> [error |-> "Internal Server Error"],
              gates |-> <<"authLimit">>]
        ELSE IF PasswordMatches(b.password)
        THEN [authAttempts |-> Delete(lim.store, key),
              sessions |-> Put(EmptyMap, token, now + SESSION_TTL), issued |-> token,
              status |-> 200, headers |-> headers,
              body |-> [success |-> TRUE, token |-> token],
              gates |-> <<"authLimit", "password", "issue">>]
        ELSE [authAttempts |-> lim.store, sessions |-> sessions, issued |-> issued,
              status |-> 401, headers |-> headers,
              body |-> [success |-> FALSE, error |-> "Invalid password"],
              gates |-> <<"authLimit", "password">>]

\* the handler after the global middleware called next(); headers is what the
\* middleware set.  A request without a parsed body makes
\* `const { password } = req.body` throw, and Express answers 500.
AuthHandler(b, key, headers) ==
    LET lim == AuthLimiter(key)
        token == issued + 1
    IN  IF lim.denied
        THEN [authAttempts |-> lim.store, sessions |-> sessions, issued |-> issued,
              status |-> 429, headers |-> ("Retry-After" :> lim.retryAfter) @@ headers,
              body |-> [error |-> "Too many attempts. Try again later."],
              gates |-> <<"authLimit">>]
        ELSE IF ~b.hasBody
        THEN [authAttempts |-> lim.store, sessions |-> sessions, issued |-> issued,
              status |-> 500, headers |-> headers,
              body |-> [error |-> "Internal Server Error"],
              gates |-> <<"authLimit">>]
        ELSE IF PasswordMatches(b.password)
        THEN [authAttempts |-> Delete(lim.store, key),
              sessions |-> Put(sessions, token, now + SESSION_TTL), issued |-> token,
              status |-> 200, headers |-> headers,
              body |-> [success |-> TRUE, token |-> token],
              gates |-> <<"authLimit", "password", "issue">>]
        ELSE [authAttempts |-> lim.store, sessions |-> sessions, issued |-> issued,
              status |-> 401, headers |-> headers,
              body |-> [success |-> FALSE, error |-> "Invalid password"],
              gates |-> <<"authLimit", "password">>]

\* a POST /api/auth request with the client headers hdr and the body b, run
\* from the current state: the global middleware, then the handler.  The
\* stores afterwards, the response, and the gates the request went through.
AuthRun(hdr, b) ==
    LET key == getClientIp(hdr)
        g == GlobalMiddleware(key)
        h == AuthHandler(b, key, g.headers)
    IN  IF ~g.next
        THEN [key |-> key, globalApiAttempts |-> g.store, authAttempts |-> authAttempts,
              sessions |-> sessions, issued |-> issued, global |-> g.result,
              status |-> g.status, headers |-> g.headers, body |-> g.body,
              gates |-> <<"global">>]
        ELSE [key |-> key, globalApiAttempts |-> g.store, authAttempts |-> h.authAttempts,
              sessions |-> h.sessions, issued |-> h.issued, global |-> g.result,
              status |-> h.status, headers |-> h.headers, body |-> h.body,
              gates |-> <<"global">> \o h.gates]

\* the request is handled unless it would issue more than limit tokens
AuthUpTo(Clients, Bodies, limit) ==
    /\ listening
    /\ \E hdr \in Clients, b \in Bodies :
        LET o == AuthRun(hdr, b)
        IN  /\ o.issued <= limit
            /\ globalApiAttempts' = o.globalApiAttempts
            /\ authAttempts' = o.authAttempts
            /\ sessions' = o.sessions
            /\ issued' = o.issued
    /\ UNCHANGED <<env, listening, now, analyzeAttempts, inflight, analyzeTimes>>

Auth(Clients, Bodies) == AuthUpTo(Clients, Bodies, MaxTokens)

\* a faulty variant of the files test: without `files.length === 0`
FilesInvalidNoLength(files) ==
    files.type = "undefined" \/ files.type # "array"

\* --------------------------------------------------------- POST /api/analyze
\* !files || !Array.isArray(files) || files.length === 0
FilesInvalid(files) ==
    files.type = "undefined" \/ files.type # "array" \/ files.len = 0

\* !householdSize || typeof householdSize !== 'number' || householdSize < 1
HouseholdSizeInvalid(h) ==
    \/ h.type = "undefined" \/ h.type = "NaN" \/ (h.type = "number" /\ h.x2 = 0)
    \/ h.type # "number"
    \/ h.x2 < 2
\* a faulty variant of the povertyLevel computation: `householdSize - 9`
PovertyLevelOffByOne(h) ==
    IF h.x2 <= 16
    THEN IF h.x2 % 2 = 0 /\ (h.x2 \div 2) \in 1..8
         THEN [defined |-> TRUE, value |-> FEDERAL_POVERTY_LEVELS[h.x2 \div 2]]
         ELSE [defined |-> FALSE, value |-> 0]
    ELSE [defined |-> TRUE,
          value |-> FEDERAL_POVERTY_LEVELS[8]
                        + (FPL_ADDITIONAL_PERSON_AMOUNT * (h.x2 - 18)) \div 2]

\* householdSize <= 8 ? FEDERAL_POVERTY_LEVELS[householdSize]
\*                    : FEDERAL_POVERTY_LEVELS[8] + FPL_ADDITIONAL_PERSON_AMOUNT * (householdSize - 8)
\* for a number h (h.x2 is twice it); a property the table lacks is undefined
PovertyLevel(h) ==
    IF h.x2 <= 16
    THEN IF h.x2 % 2 = 0 /\ (h.x2 \div 2) \in 1..8
         THEN [defined |-> TRUE, value |-> FEDERAL_POVERTY_LEVELS[h.x2 \div 2]]
         ELSE [defined |-> FALSE, value |-> 0]
    ELSE [defined |-> TRUE,
          value |-> FEDERAL_POVERTY_LEVELS[8]
                        + (FPL_ADDITIONAL_PERSON_AMOUNT * (h.x2 - 16)) \div 2]

\* povertyLevel * 2
PovertyThreshold(level) == [defined |-> level.defined, value |-> level.value * 2]

GenericFailure == [message |-> "Failed to analyze documents. Please try again."]

NoCall == [key |-> ""]
\* a faulty variant of the handler: the body is validated before the
\* analyze limiter is consulted, so that a 400 costs no analysis
AnalyzeHandlerValidatesFirst(b, key, headers) ==
    LET c == checkRateLimit(analyzeAttempts, key, ANALYZE_RATE_LIMIT, now)
        level == PovertyLevel(b.householdSize)
        out(store, status, hdrs, body, gates, call) ==
            [analyzeAttempts |-> store, result |-> c.result, status |-> status,
             headers |-> hdrs, body |-> body, gates |-> gates, call |-> call]
    IN  IF ~b.hasBody
        THEN out(analyzeAttempts, 500, headers, GenericFailure, <<"body">>, NoCall)
        ELSE IF FilesInvalid(b.files)
        THEN out(analyzeAttempts, 400, headers, [message |-> "No files provided."],
                 <<"body", "validate">>, NoCall)
        ELSE IF HouseholdSizeInvalid(b.householdSize)
        THEN out(analyzeAttempts, 400, headers,
                 [message |-> "Valid household size is required."],
                 <<"body", "validate">>, NoCall)
        ELSE IF ~c.result.allowed
        THEN out(c.store, 429,
                 ("Retry-After" :> OrDefault(c.result.retryAfter, AnalyzeRetryAfterDefault))
                     @@ ("X-RateLimit-Limit" :> ANALYZE_RATE_LIMIT.maxAttempts)
                     @@ ("X-RateLimit-Remaining" :> 0),
                 [error |-> "Analysis rate limit exceeded. Maximum 10 analyses per hour.",
                  retryAfter |-> c.result.retryAfter],
                 <<"body", "validate", "analyzeLimit">>, NoCall)
        ELSE IF ~env.GEMINI_API_KEY
        THEN out(c.store, 500, headers, [message |-> "API key not configured"],
                 <<"body", "validate", "analyzeLimit", "apiKey">>, NoCall)
        ELSE IF ~level.defined
        THEN out(c.store, 500, headers, GenericFailure,
                 <<"body", "validate", "analyzeLimit", "apiKey", "prompt">>, NoCall)
        ELSE out(c.store, 0, headers, [message |-> ""],
                 <<"body", "validate", "analyzeLimit", "apiKey", "prompt", "generateContent">>,
                 [key |-> key, headers |-> headers, householdSize |-> b.householdSize,
                  povertyLevel |-> level.value,
                  povertyThreshold |-> PovertyThreshold(level).value])

\* the handler after requireAuth called next(), up to its await; headers is
\* what the global middleware set.  status 0: no response yet, the handler is
\* suspended at generateContent.
AnalyzeHandler(b, key, headers) ==
    LET c == checkRateLimit(analyzeAttempts, key, ANALYZE_RATE_LIMIT, now)
        level == PovertyLevel(b.householdSize)
        out(status, hdrs, body, gates, call) ==
            [analyzeAttempts |-> c.store, result |-> c.result, status |-> status,
             headers |-> hdrs, body |-> body, gates |-> gates, call |-> call]
    IN  IF ~c.result.allowed
        THEN out(429,
                 ("Retry-After" :> OrDefault(c.result.retryAfter, AnalyzeRetryAfterDefault))
                     @@ ("X-RateLimit-Limit" :> ANALYZE_RATE_LIMIT.maxAttempts)
                     @@ ("X-RateLimit-Remaining" :> 0),
                 [error |-> "Analysis rate limit exceeded. Maximum 10 analyses per hour.",
                  retryAfter |-> c.result.retryAfter],
                 <<"analyzeLimit">>, NoCall)
        ELSE IF ~b.hasBody
        THEN out(500, headers, GenericFailure, <<"analyzeLimit", "body">>, NoCall)
        ELSE IF FilesInvalid(b.files)
        THEN out(400, headers, [message |-> "No files provided."],
                 <<"analyzeLimit", "body", "validate">>, NoCall)
        ELSE IF HouseholdSizeInvalid(b.householdSize)
        THEN out(400, headers, [message |-> "Valid household size is required."],
                 <<"analyzeLimit", "body", "validate">>, NoCall)
        ELSE IF ~env.GEMINI_API_KEY
        THEN out(500, headers, [message |-> "API key not configured"],
                 <<"analyzeLimit", "body", "validate", "apiKey">>, NoCall)
        ELSE IF ~level.defined
        THEN \* povertyLevel.toLocaleString() throws on undefined
             out(500, headers, GenericFailure,
                 <<"analyzeLimit", "body", "validate", "apiKey", "prompt">>, NoCall)
        ELSE out(0, headers, [message |-> ""],
                 <<"analyzeLimit", "body", "validate", "apiKey", "prompt", "generateContent">>,
                 [key |-> key, headers |-> headers, householdSize |-> b.householdSize,
                  povertyLevel |-> level.value,
                  povertyThreshold |-> PovertyThreshold(level).value])

NotRun == [run |-> FALSE]

\* a POST /api/analyze request with the client headers hdr, the Authorization
\* header and the body b, run from the current state up to its response or
\* its await: the global middleware, requireAuth, then the handler
AnalyzeRun(hdr, authorization, b) ==
    LET key == getClientIp(hdr)
        g == GlobalMiddleware(key)
        a == requireAuth(authorization)
        h == AnalyzeHandler(b, key, g.headers)
    IN  IF ~g.next
        THEN [key |-> key, globalApiAttempts |-> g.store, sessions |-> sessions,
              analyzeAttempts |-> analyzeAttempts, global |-> g.result, analyze |-> NotRun,
              status |-> g.status, headers |-> g.headers, body |-> g.body,
              gates |-> <<"global">>, call |-> NoCall]
        ELSE IF ~a.next
        THEN [key |-> key, globalApiAttempts |-> g.store, sessions |-> a.sessions,
              analyzeAttempts |-> analyzeAttempts, global |-> g.result, analyze |-> NotRun,
              status |-> a.status, headers |-> g.headers, body |-> a.body,
              gates |-> <<"global", "requireAuth">>, call |-> NoCall]
        ELSE [key |-> key, globalApiAttempts |-> g.store, sessions |-> a.sessions,
              analyzeAttempts |-> h.analyzeAttempts, global |-> g.result,
              analyze |-> h.result,
              status |-> h.status, headers |-> h.headers, body |-> h.body,
              gates |-> <<"global", "requireAuth">> \o h.gates, call |-> h.call]

\* the Authorization headers a client can send: a token the server issued, or
\* a string it never issued
Presentable == {x \in AuthorizationValues : x.token <= issued}

\* the history after one more request of key reached the analyze limiter
Logged(key) ==
    LET old == IF Has(analyzeTimes, key) THEN analyzeTimes[key] ELSE <<>>
        all == Append(old, now)
    IN  Put(analyzeTimes, key,
            IF Len(all) > ANALYZE_RATE_LIMIT.maxAttempts THEN Tail(all) ELSE all)

Analyze(Clients, Bodies) ==
    /\ listening
    /\ \E hdr \in Clients, authorization \in Presentable, b \in Bodies :
        LET o == AnalyzeRun(hdr, authorization, b)
        IN  /\ o.status = 0 => Len(inflight) < MaxInflight
            /\ globalApiAttempts' = o.globalApiAttempts
            /\ sessions' = o.sessions
            /\ analyzeAttempts' = o.analyzeAttempts
            /\ inflight' = IF o.status = 0 THEN Append(inflight, o.call) ELSE inflight
            /\ analyzeTimes' = IF "analyzeLimit" \in Range(o.gates)
                               THEN Logged(o.key) ELSE analyzeTimes
    /\ UNCHANGED <<env, listening, now, authAttempts, issued>>

\* ------------------------------------------- the external call's completion
\* what generateContent can do: resolve with a text that parses to an object,
\* resolve with a text JSON.parse rejects, resolve without text, or reject
GeminiResult ==
    [isEligible |-> TRUE, annualIncome |-> 20000, reasoning |-> "r", documentType |-> "W-2"]
FewOutcomes ==
    {[kind |-> "json", result |-> GeminiResult],
     [kind |-> "reject", result |-> [isEligible |-> FALSE]]}
\* a faulty variant of the merge: { householdSize, povertyLevel,
\* povertyThreshold, ...result }
EnrichedCollaboratorWins(result, call) ==
    result @@ [householdSize |-> call.householdSize, povertyLevel |-> call.povertyLevel,
               povertyThreshold |-> call.povertyThreshold]

\* { ...result, householdSize, povertyLevel, povertyThreshold }
Enriched(result, call) ==
    [householdSize |-> call.householdSize, povertyLevel |-> call.povertyLevel,
     povertyThreshold |-> call.povertyThreshold] @@ result

\* the response of a suspended handler that resumes with outcome o: the try
\* block's last two statements, or the catch
ResumeRun(call, o) ==
    IF o.kind = "json"
    THEN [status |-> 200, headers |-> call.headers, body |-> Enriched(o.result, call)]
    ELSE [status |-> 500, headers |-> call.headers, body |-> GenericFailure]

Remove(seq, i) == [j \in 1..(Len(seq) - 1) |-> IF j < i THEN seq[j] ELSE seq[j + 1]]

Resume ==
    /\ listening
    /\ \E i \in 1..Len(inflight) : inflight' = Remove(inflight, i)
    /\ UNCHANGED <<env, listening, now, authAttempts, analyzeAttempts,
                   globalApiAttempts, sessions, issued, analyzeTimes>>
\* a faulty variant of the sweep: `now >= entry.resetAt`
SweptEarly(store) == [k \in {x \in DOMAIN store : ~(now >= store[x].resetAt)} |-> store[k]]

\* -------------------------------------------------------------- the timers
\* the entries a rate-limit sweep keeps: those without now > entry.resetAt
Swept(store) == [k \in {x \in DOMAIN store : ~(now > store[x].resetAt)} |-> store[k]]

\* the 5-minute interval
SweepRateLimits ==
    /\ listening
    /\ authAttempts' = Swept(authAttempts)
    /\ analyzeAttempts' = Swept(analyzeAttempts)
    /\ globalApiAttempts' = Swept(globalApiAttempts)
    /\ UNCHANGED <<env, listening, now, sessions, issued, inflight, analyzeTimes>>

\* the hourly interval
SweepSessions ==
    /\ listening
    /\ sessions' = [k \in {x \in DOMAIN sessions : ~(now > sessions[x])} |-> sessions[k]]
    /\ UNCHANGED <<env, listening, now, authAttempts, analyzeAttempts,
                   globalApiAttempts, issued, inflight, analyzeTimes>>

\* the clock moves on
Tick ==
    /\ now < MaxTime
    /\ now' = now + 1
    /\ UNCHANGED <<env, listening, authAttempts, analyzeAttempts, globalApiAttempts,
                   sessions, issued, inflight, analyzeTimes>>

\* ------------------------------------------------------------ specification
\* !INCOME_VERIFIER_PASSWORD makes the process exit before app.listen
Truthy(s) == s # Undefined /\ s # ""

\* ---------------------------------------------------------------------- cors
\* origin: process.env.CORS_ORIGIN || true.  The cors middleware answers a
\* string option with that string and `true` with the request's own Origin.
corsOrigin ==
    IF Truthy(env.CORS_ORIGIN)
    THEN [reflect |-> FALSE, value |-> env.CORS_ORIGIN]
    ELSE [reflect |-> TRUE, value |-> ""]

\* the Access-Control-Allow-Origin header of the response to a request
\* whose Origin header is origin
AccessControlAllowOrigin(origin) ==
    IF corsOrigin.reflect THEN origin ELSE corsOrigin.value

\* a faulty variant of the start-up: without the check of lines 20-23
StartListening(Envs) ==
    /\ env \in Envs
    /\ listening = TRUE
    /\ now = 0
    /\ authAttempts = EmptyMap
    /\ analyzeAttempts = EmptyMap
    /\ globalApiAttempts = EmptyMap
    /\ sessions = EmptyMap
    /\ issued = 0
    /\ inflight = <<>>
    /\ analyzeTimes = EmptyMap

Start(Envs) ==
    /\ env \in Envs
    /\ listening = Truthy(env.INCOME_VERIFIER_PASSWORD)
    /\ now = 0
    /\ authAttempts = EmptyMap
    /\ analyzeAttempts = EmptyMap
    /\ globalApiAttempts = EmptyMap
    /\ sessions = EmptyMap
    /\ issued = 0
    /\ inflight = <<>>
    /\ analyzeTimes = EmptyMap

\* the deployed configuration: password, API key and CORS origin set as in
\* the README's .env
Configured ==
    {[INCOME_VERIFIER_PASSWORD |-> "hunter2", GEMINI_API_KEY |-> TRUE,
      CORS_ORIGIN |-> "https://income.wxworks.org"]}

Init == Start(Configured)

Next ==
    \/ Tick
    \/ Auth(OneClient, AuthBodies)
    \/ Analyze(OneClient, FewBodies)
    \/ Resume
    \/ SweepRateLimits
    \/ SweepSessions

Spec == Init /\ [][Next]_vars

\* ================================================================ properties
\* Each property speaks of every request a client can send in the current
\* state: AuthRun and AnalyzeRun give the stores and the response the request
\* would leave, and the Auth and Analyze actions take exactly these runs.

\* every environment the process can be started in: the password unset,
\* empty or set; the API key unset or set; CORS_ORIGIN unset or set
AllEnvs ==
    [INCOME_VERIFIER_PASSWORD : {Undefined, "", "hunter2"}, GEMINI_API_KEY : BOOLEAN,
     CORS_ORIGIN : {Undefined, "https://income.wxworks.org", "https://staff.example"}]

InitAnyEnv == Start(AllEnvs)

SpecAnyEnv == InitAnyEnv /\ [][Next]_vars

\* two clients: one keyed by cf-connecting-ip, one by the first part of
\* x-forwarded-for
TwoClients ==
    {[cf |-> "a", xff |-> <<>>, ip |-> "b"],
     [cf |-> Undefined, xff |-> <<" b ", "c">>, ip |-> "a"]}

\* the clock of the two-client runs
MaxTimeTwoClients == 1
TickTwoClients == now < MaxTimeTwoClients /\ Tick

NextTwoClients ==
    \/ TickTwoClients
    \/ Auth(TwoClients, AuthBodies)
    \/ Analyze(TwoClients, FewBodies)
    \/ Resume
    \/ SweepRateLimits
    \/ SweepSessions

SpecTwoClients == Init /\ [][NextTwoClients]_vars

\* runs in which the server issues up to MoreTokens tokens
NextMoreTokens ==
    \/ Tick
    \/ AuthUpTo(OneClient, AuthBodies, MoreTokens)
    \/ Analyze(OneClient, FewBodies)
    \/ Resume
    \/ SweepRateLimits
    \/ SweepSessions

SpecMoreTokens == Init /\ [][NextMoreTokens]_vars

\* three kinds of request: with cf-connecting-ip, and two without any
\* determinable address (req.ip undefined, req.ip empty)
ThreeHeaders ==
    {[cf |-> "a", xff |-> <<>>, ip |-> "b"],
     [cf |-> Undefined, xff |-> <<>>, ip |-> Undefined],
     [cf |-> Undefined, xff |-> <<>>, ip |-> ""]}

NextHeaders ==
    \/ TickTwoClients
    \/ Auth(ThreeHeaders, AuthBodies)
    \/ Analyze(ThreeHeaders, FewBodies)
    \/ Resume
    \/ SweepRateLimits
    \/ SweepSessions

SpecHeaders == Init /\ [][NextHeaders]_vars

AnalyzeRequests == OneClient \X Presentable \X AnalyzeBodies
FewAnalyzeRequests == OneClient \X Presentable \X FewBodies
AuthRequests == OneClient \X AuthBodies

\* the outcome of each gate for a request, read off the state before it
GlobalAllows(key) ==
    checkRateLimit(globalApiAttempts, key, GLOBAL_API_RATE_LIMIT, now).result.allowed
TokenValid(authorization) ==
    /\ authorization.kind = "bearer"
    /\ Has(sessions, authorization.token)
    /\ now <= sessions[authorization.token]
AnalyzeAllows(key) ==
    checkRateLimit(analyzeAttempts, key, ANALYZE_RATE_LIMIT, now).result.allowed
BodyValid(b) ==
    /\ b.hasBody
    /\ b.files.type = "array" /\ b.files.len >= 1
    /\ b.householdSize.type = "number" /\ b.householdSize.x2 >= 2

\* the request's handler got as far as the external call
Called(o) == o.status = 0
\* the route handler of /api/analyze was not invoked for the request
HandlerNotInvoked(o) ==
    /\ o.analyzeAttempts = analyzeAttempts
    /\ ~Called(o)
    /\ "analyzeLimit" \notin Range(o.gates)

GoodPassword == [hasBody |-> TRUE, password |-> "hunter2"]

\* C1: the external call is made for a request only if the request was allowed
\* by the global limiter, then presented a Bearer token that is in the session
\* store and unexpired, then was allowed by the analyze limiter, then passed
\* body validation; a request refused at one gate reaches no later gate (the
\* later gates leave no trace in the stores) and makes no call.
GateOrder ==
    \A r \in AnalyzeRequests :
        LET key == getClientIp(r[1])
            o == AnalyzeRun(r[1], r[2], r[3])
        IN  /\ Called(o) =>
                /\ GlobalAllows(key) /\ TokenValid(r[2]) /\ AnalyzeAllows(key) /\ BodyValid(r[3])
                /\ o.gates = <<"global", "requireAuth", "analyzeLimit", "body", "validate",
                               "apiKey", "prompt", "generateContent">>
            /\ ~GlobalAllows(key) =>
                /\ o.status = 429 /\ o.gates = <<"global">>
                /\ o.sessions = sessions /\ HandlerNotInvoked(o)
            /\ GlobalAllows(key) /\ ~TokenValid(r[2]) =>
                /\ o.status = 401 /\ o.gates = <<"global", "requireAuth">>
                /\ HandlerNotInvoked(o)
            /\ GlobalAllows(key) /\ TokenValid(r[2]) /\ ~AnalyzeAllows(key) =>
                /\ o.status = 429 /\ o.gates = <<"global", "requireAuth", "analyzeLimit">>
                /\ ~Called(o)
            /\ GlobalAllows(key) /\ TokenValid(r[2]) /\ AnalyzeAllows(key) /\ ~BodyValid(r[3]) =>
                /\ o.status \in {400, 500} /\ ~Called(o)
                /\ "generateContent" \notin Range(o.gates)

\* a call is in flight, and a further request with a valid body and no valid
\* token is stopped at requireAuth
GateOrderWitness ==
    /\ inflight # <<>>
    /\ \E r \in AnalyzeRequests :
        /\ BodyValid(r[3]) /\ GlobalAllows(getClientIp(r[1])) /\ ~TokenValid(r[2])
        /\ AnalyzeRun(r[1], r[2], r[3]).status = 401

\* C2: a token issued by a successful POST /api/auth at time t is stored
\* with expiry t + SESSION_TTL; requireAuth accepts a Bearer token iff it is in
\* the session store and now <= expiry; a refused token gets 401 "Session
\* expired" and is not in the store afterwards.
TokenLifetime ==
    /\ \A r \in AuthRequests :
        LET o == AuthRun(r[1], r[2])
        IN  o.status = 200 =>
                /\ ~Has(sessions, o.body.token)
                /\ o.sessions = Put(sessions, o.body.token, now + SESSION_TTL)
    /\ \A r \in FewAnalyzeRequests :
        LET o == AnalyzeRun(r[1], r[2], r[3])
            token == r[2].token
            accepted == "analyzeLimit" \in Range(o.gates)
        IN  GlobalAllows(getClientIp(r[1])) /\ r[2].kind = "bearer" =>
                /\ accepted <=> (Has(sessions, token) /\ now <= sessions[token])
                /\ accepted => o.sessions = sessions
                /\ ~accepted =>
                    /\ o.status = 401 /\ o.body = [error |-> "Session expired"]
                    /\ ~Has(o.sessions, token)

\* a request presents a token at exactly its expiry, and is accepted
TokenLifetimeWitness ==
    \E r \in FewAnalyzeRequests :
        /\ r[2].kind = "bearer" /\ Has(sessions, r[2].token)
        /\ now = sessions[r[2].token]
        /\ "analyzeLimit" \in Range(AnalyzeRun(r[1], r[2], r[3]).gates)

\* the calls of checkRateLimit the code makes, and any call on the auth store
GenericChecks ==
    {[store |-> globalApiAttempts, config |-> GLOBAL_API_RATE_LIMIT],
     [store |-> analyzeAttempts, config |-> ANALYZE_RATE_LIMIT]}
AllChecks == GenericChecks \cup {[store |-> authAttempts, config |-> AUTH_RATE_LIMIT]}
Keys == {getClientIp(hdr) : hdr \in OneClient}

\* C3: on every store, key and policy an entry's count is N - 1 before the
\* Nth call of its window; with no entry, or an entry whose resetAt is
\* strictly in the past, checkRateLimit stores count = 1 and
\* resetAt = now + windowMs and returns allowed with remaining =
\* maxAttempts - 1; the Nth call within the window (N <= maxAttempts) returns
\* allowed with remaining = maxAttempts - N; the (maxAttempts + 1)th returns
\* denied with remaining = 0.
WindowCount ==
    \A s \in AllChecks, key \in Keys :
        LET c == checkRateLimit(s.store, key, s.config, now)
            max == s.config.maxAttempts
            fresh == ~Has(s.store, key) \/ now > s.store[key].resetAt
        IN  /\ Has(s.store, key) => s.store[key].count \in 1..max
            /\ fresh =>
                /\ c.result.allowed /\ c.result.remaining = max - 1
                /\ c.store = Put(s.store, key,
                                 [count |-> 1, resetAt |-> now + s.config.windowMs])
            /\ ~fresh /\ s.store[key].count < max =>
                /\ c.result.allowed
                /\ c.result.remaining = max - (s.store[key].count + 1)
                /\ c.store[key].count = s.store[key].count + 1
            /\ ~fresh /\ s.store[key].count = max =>
                /\ ~c.result.allowed /\ c.result.remaining = 0

\* the analyze window of a key is full and open: its next check is the
\* (maxAttempts + 1)th
WindowCountWitness ==
    \E key \in Keys :
        /\ Has(analyzeAttempts, key)
        /\ analyzeAttempts[key].count = ANALYZE_RATE_LIMIT.maxAttempts
        /\ now < analyzeAttempts[key].resetAt
        /\ ~AnalyzeAllows(key)

\* the auth window of key is open and full
AuthFull(key) ==
    /\ Has(authAttempts, key)
    /\ now < authAttempts[key].resetAt
    /\ authAttempts[key].count >= AUTH_RATE_LIMIT.maxAttempts

\* C4: on POST /api/auth the attempt is counted and the limit checked before
\* the password is compared: a request that reaches the comparison has been
\* counted in the open window, whose count never exceeds maxAttempts, and a
\* request that finds the window full gets 429, reaches no comparison and is
\* issued no token even when its password is correct.
LimitBeforePassword ==
    \A r \in AuthRequests :
        LET key == getClientIp(r[1])
            o == AuthRun(r[1], r[2])
            compared == "password" \in Range(o.gates)
            counted == IF Has(authAttempts, key) /\ now < authAttempts[key].resetAt
                       THEN authAttempts[key].count + 1 ELSE 1
        IN  /\ Has(authAttempts, key) => authAttempts[key].count \in 1..AUTH_RATE_LIMIT.maxAttempts
            /\ o.status \in {200, 401} <=> compared
            /\ GlobalAllows(key) /\ AuthFull(key) =>
                /\ o.status = 429 /\ ~compared
                /\ o.sessions = sessions /\ o.issued = issued
                /\ o.authAttempts = authAttempts
            /\ compared =>
                /\ GlobalAllows(key) /\ ~AuthFull(key)
                /\ counted <= AUTH_RATE_LIMIT.maxAttempts
                /\ o.status = 401 =>
                    o.authAttempts[key].count = counted

\* the window is full, and the request with the right password is refused
LimitBeforePasswordWitness ==
    \E hdr \in OneClient :
        /\ AuthFull(getClientIp(hdr)) /\ GlobalAllows(getClientIp(hdr))
        /\ AuthRun(hdr, GoodPassword).status = 429

\* C5: a successful POST /api/auth removes the key's auth entry whatever its
\* count was, and a bad-password attempt of a key without an entry is
\* recorded as count = 1 with resetAt = now + windowMs.
SuccessForgives ==
    \A r \in AuthRequests :
        LET key == getClientIp(r[1])
            o == AuthRun(r[1], r[2])
        IN  /\ o.status = 200 => o.authAttempts = Delete(authAttempts, key)
            /\ ~Has(authAttempts, key) /\ o.status = 401 =>
                o.authAttempts = Put(authAttempts, key,
                                     [count |-> 1,
                                      resetAt |-> now + AUTH_RATE_LIMIT.windowMs])

\* a key with maxAttempts - 1 attempts in its open window logs in, and its
\* entry is gone
SuccessForgivesWitness ==
    \E hdr \in OneClient :
        LET key == getClientIp(hdr) IN
        /\ Has(authAttempts, key) /\ now < authAttempts[key].resetAt
        /\ authAttempts[key].count = AUTH_RATE_LIMIT.maxAttempts - 1
        /\ AuthRun(hdr, GoodPassword).status = 200
        /\ ~Has(AuthRun(hdr, GoodPassword).authAttempts, key)

\* when the latest requests of key reached the analyze limiter
RecentAnalyze(key) == IF Has(analyzeTimes, key) THEN analyzeTimes[key] ELSE <<>>

\* C6, as stated: when maxAttempts requests of a client with a valid session
\* reached the analyze limiter within the last windowMs, the client's next
\* request is answered 429 and makes no external call, whatever its body.
AnalyzeBurstAnyHour ==
    \A r \in AnalyzeRequests :
        LET key == getClientIp(r[1])
            o == AnalyzeRun(r[1], r[2], r[3])
            times == RecentAnalyze(key)
        IN  /\ GlobalAllows(key) /\ TokenValid(r[2])
            /\ Len(times) = ANALYZE_RATE_LIMIT.maxAttempts
            /\ now - times[1] < ANALYZE_RATE_LIMIT.windowMs
            => o.status = 429 /\ ~Called(o)

\* C6, amended: when maxAttempts requests of a client with a valid session
\* reached the analyze limiter inside the window that is still open (none
\* before the request that opened it, now not after its resetAt), the client's
\* next request is answered 429 with retryAfter in its body and a Retry-After
\* header, changes no store entry of the limiter and makes no external call,
\* whatever its body.
AnalyzeBurst ==
    \A r \in AnalyzeRequests :
        LET key == getClientIp(r[1])
            o == AnalyzeRun(r[1], r[2], r[3])
            times == RecentAnalyze(key)
        IN  /\ GlobalAllows(key) /\ TokenValid(r[2])
            /\ Has(analyzeAttempts, key) /\ now <= analyzeAttempts[key].resetAt
            /\ Len(times) = ANALYZE_RATE_LIMIT.maxAttempts
            /\ times[1] >= analyzeAttempts[key].resetAt - ANALYZE_RATE_LIMIT.windowMs
            => /\ o.status = 429 /\ ~Called(o)
               /\ o.body.retryAfter
                    = Ceil(analyzeAttempts[key].resetAt - now, MsPerSecond)
               /\ Has(o.headers, "Retry-After")
               /\ o.analyzeAttempts = analyzeAttempts

\* maxAttempts requests reached the limiter in the open window, and one more
\* with a valid session and a valid body is refused
AnalyzeBurstWitness ==
    \E r \in AnalyzeRequests :
        LET key == getClientIp(r[1])
            times == RecentAnalyze(key)
        IN  /\ GlobalAllows(key) /\ TokenValid(r[2]) /\ BodyValid(r[3])
            /\ Has(analyzeAttempts, key) /\ now <= analyzeAttempts[key].resetAt
            /\ Len(times) = ANALYZE_RATE_LIMIT.maxAttempts
            /\ times[1] >= analyzeAttempts[key].resetAt - ANALYZE_RATE_LIMIT.windowMs
            /\ AnalyzeRun(r[1], r[2], r[3]).status = 429

\* C7: requireAuth answers 401 "Unauthorized" to a request whose
\* Authorization header is missing or not a Bearer header and leaves the
\* session store as it was; it answers 401 "Session expired" to an unknown or
\* expired token, which is not in the store afterwards; in both cases the
\* route handler is not invoked.
Rejections ==
    \A r \in FewAnalyzeRequests :
        LET o == AnalyzeRun(r[1], r[2], r[3])
            token == r[2].token
        IN  GlobalAllows(getClientIp(r[1])) =>
                /\ r[2].kind # "bearer" =>
                    /\ o.status = 401 /\ o.body = [error |-> "Unauthorized"]
                    /\ o.sessions = sessions
                    /\ HandlerNotInvoked(o)
                /\ r[2].kind = "bearer" /\ (~Has(sessions, token) \/ now > sessions[token]) =>
                    /\ o.status = 401 /\ o.body = [error |-> "Session expired"]
                    /\ ~Has(o.sessions, token)
                    /\ o.sessions = Delete(sessions, token)
                    /\ HandlerNotInvoked(o)

\* an expired token is still in the store and a request presents it
RejectionsWitness ==
    \E r \in FewAnalyzeRequests :
        /\ r[2].kind = "bearer" /\ Has(sessions, r[2].token)
        /\ now > sessions[r[2].token]
        /\ AnalyzeRun(r[1], r[2], r[3]).status = 401
        /\ AnalyzeRun(r[1], r[2], r[3]).sessions # sessions

\* C8: a denied check, of checkRateLimit or of the inline auth limiter,
\* leaves the store as it was; an allowed check on an entry whose window is
\* open adds one to its count and changes nothing else; resetAt changes only
\* when the window is over.
FixedWindow ==
    /\ \A s \in GenericChecks, key \in Keys :
        LET c == checkRateLimit(s.store, key, s.config, now) IN
        Has(s.store, key) =>
            /\ ~c.result.allowed => c.store = s.store
            /\ c.result.allowed /\ now < s.store[key].resetAt =>
                c.store = [s.store EXCEPT ![key].count = @ + 1]
            /\ c.store[key].resetAt # s.store[key].resetAt => now >= s.store[key].resetAt
    /\ \A key \in Keys :
        LET lim == AuthLimiter(key) IN
        Has(authAttempts, key) =>
            /\ lim.denied => lim.store = authAttempts
            /\ ~lim.denied /\ now < authAttempts[key].resetAt =>
                lim.store = [authAttempts EXCEPT ![key].count = @ + 1]
            /\ lim.store[key].resetAt # authAttempts[key].resetAt =>
                now >= authAttempts[key].resetAt

\* the global window of a key is full and open while its auth window is open
\* too: a denied and an allowed check on live entries
FixedWindowWitness ==
    \E key \in Keys :
        /\ Has(globalApiAttempts, key) /\ now < globalApiAttempts[key].resetAt
        /\ ~GlobalAllows(key)
        /\ Has(authAttempts, key) /\ now < authAttempts[key].resetAt
        /\ ~AuthLimiter(key).denied

\* C9, as stated: in every store a check at now >= resetAt, now = resetAt
\* included, replaces the entry by count = 1, resetAt = now + windowMs, and a
\* count is incremented only at now < resetAt.
ExpiryAtResetAt ==
    /\ \A s \in GenericChecks, key \in Keys :
        LET c == checkRateLimit(s.store, key, s.config, now) IN
        Has(s.store, key) =>
            /\ now >= s.store[key].resetAt =>
                /\ c.result.allowed
                /\ c.store[key] = [count |-> 1, resetAt |-> now + s.config.windowMs]
            /\ c.store[key] = [s.store[key] EXCEPT !.count = @ + 1] =>
                now < s.store[key].resetAt
    /\ \A key \in Keys :
        LET lim == AuthLimiter(key) IN
        Has(authAttempts, key) =>
            /\ now >= authAttempts[key].resetAt =>
                /\ ~lim.denied
                /\ lim.store[key] = [count |-> 1,
                                     resetAt |-> now + AUTH_RATE_LIMIT.windowMs]
            /\ lim.store[key] = [authAttempts[key] EXCEPT !.count = @ + 1] =>
                now < authAttempts[key].resetAt

\* X-RateLimit-Limit and X-RateLimit-Remaining are set
RateLimitHeaders(headers) ==
    Has(headers, "X-RateLimit-Limit") /\ Has(headers, "X-RateLimit-Remaining")

\* ceil((resetAt - now) / 1000) for the entry of the limiter that refused: the
\* last gate of the request
SecondsLeft(gates, key) ==
    LET gate == gates[Len(gates)]
        entry == CASE gate = "global" -> globalApiAttempts[key]
                   [] gate = "authLimit" -> authAttempts[key]
                   [] gate = "analyzeLimit" -> analyzeAttempts[key]
    IN  Ceil(entry.resetAt - now, MsPerSecond)

\* a 429 carries Retry-After, equal to the seconds left and positive
RetryAfterHeader(o) ==
    o.status = 429 =>
        /\ Has(o.headers, "Retry-After")
        /\ o.headers["Retry-After"] = SecondsLeft(o.gates, o.key)
        /\ o.headers["Retry-After"] > 0

\* C10, as stated: every denied check reports
\* retryAfter = ceil((resetAt - now) / 1000) > 0; every 429 carries a
\* Retry-After header equal to it; every response on /api carries
\* X-RateLimit-Limit and X-RateLimit-Remaining.
RetryAfterPositive ==
    /\ \A s \in GenericChecks, key \in Keys :
        LET c == checkRateLimit(s.store, key, s.config, now) IN
        ~c.result.allowed =>
            /\ c.result.retryAfter = Ceil(s.store[key].resetAt - now, MsPerSecond)
            /\ c.result.retryAfter > 0
    /\ \A key \in Keys :
        LET lim == AuthLimiter(key) IN
        lim.denied =>
            /\ lim.retryAfter = Ceil(authAttempts[key].resetAt - now, MsPerSecond)
            /\ lim.retryAfter > 0
    /\ \A r \in AuthRequests :
        LET o == AuthRun(r[1], r[2]) IN
        RateLimitHeaders(o.headers) /\ RetryAfterHeader(o)
    /\ \A r \in FewAnalyzeRequests :
        LET o == AnalyzeRun(r[1], r[2], r[3]) IN
        (~Called(o) => RateLimitHeaders(o.headers)) /\ RetryAfterHeader(o)
    /\ \A i \in DOMAIN inflight, outcome \in FewOutcomes :
        RateLimitHeaders(ResumeRun(inflight[i], outcome).headers)

\* requests whose body carries an empty files list
EmptyFilesRequests == {r \in AnalyzeRequests : r[3].hasBody /\ r[3].files = NoFiles}

\* C11, as stated: a POST /api/analyze with an empty files list is answered
\* 400 in every state of the stores and for every Authorization header.
EmptyFilesAlways400 ==
    \A r \in EmptyFilesRequests : AnalyzeRun(r[1], r[2], r[3]).status = 400

\* C11, amended: a POST /api/analyze with an empty files list that passed the
\* global limiter, requireAuth and the analyze limiter is answered 400 "No
\* files provided." whatever its householdSize, and makes no external call;
\* one stopped at a gate gets that gate's 429 or 401 instead.
EmptyFiles400 ==
    \A r \in EmptyFilesRequests :
        LET key == getClientIp(r[1])
            o == AnalyzeRun(r[1], r[2], r[3])
            passed == GlobalAllows(key) /\ TokenValid(r[2]) /\ AnalyzeAllows(key)
        IN  /\ ~Called(o)
            /\ passed => o.status = 400 /\ o.body = [message |-> "No files provided."]
            /\ ~passed => o.status \in {401, 429}
            /\ o.status = 401 <=> GlobalAllows(key) /\ ~TokenValid(r[2])

\* a client whose analyze window holds a request sends an empty files list
\* with a valid token and is answered 400
EmptyFiles400Witness ==
    \E r \in EmptyFilesRequests :
        /\ Has(analyzeAttempts, getClientIp(r[1])) /\ TokenValid(r[2])
        /\ AnalyzeRun(r[1], r[2], r[3]).status = 400

\* every shape of body once more, with a negative householdSize (-1)
ValidationBodies ==
    AnalyzeBodies \cup {[hasBody |-> TRUE, files |-> f, householdSize |-> Size(-2)] :
                          f \in {NoFiles, OneFile}}
ValidationRequests == OneClient \X Presentable \X ValidationBodies

\* files is a non-empty array
FilesGood(b) == b.hasBody /\ b.files.type = "array" /\ b.files.len >= 1
\* householdSize is of type number, not NaN, and >= 1
HouseholdSizeGood(b) ==
    b.hasBody /\ b.householdSize.type = "number" /\ b.householdSize.x2 >= 2

\* what the validation answers to the request behind o, whose body is b
ValidationAnswer(o, b) ==
    LET accepted == "apiKey" \in Range(o.gates) IN
    /\ accepted <=> FilesGood(b) /\ HouseholdSizeGood(b)
    /\ ~FilesGood(b) =>
        o.status = 400 /\ o.body = [message |-> "No files provided."] /\ ~Called(o)
    /\ FilesGood(b) /\ ~HouseholdSizeGood(b) =>
        /\ o.status = 400 /\ o.body = [message |-> "Valid household size is required."]
        /\ ~Called(o)

\* the request passed the three gates before the handler reads its body
PassedGates(r) ==
    GlobalAllows(getClientIp(r[1])) /\ TokenValid(r[2]) /\ AnalyzeAllows(getClientIp(r[1]))

\* C12, as stated: for a request that has passed the gates the validation
\* accepts the body iff files is a non-empty array and householdSize a number
\* >= 1; otherwise the answer is 400 "No files provided." when files is bad
\* and 400 "Valid household size is required." when only householdSize is
\* bad, and no external call is made.
ValidationContract ==
    \A r \in ValidationRequests :
        PassedGates(r) => ValidationAnswer(AnalyzeRun(r[1], r[2], r[3]), r[3])

\* the same for the requests whose body express.json parsed: this part holds
ValidationOfParsedBodies ==
    \A r \in ValidationRequests :
        PassedGates(r) /\ r[3].hasBody =>
            ValidationAnswer(AnalyzeRun(r[1], r[2], r[3]), r[3])

\* ------------------------------------------------- the client (src/App.tsx)
FPL_BASE == <<15060, 20440, 25820, 31200, 36580, 41960, 47340, 52720>>
FPL_ADDITIONAL == 5380

\* getPovertyThreshold for an integer householdSize >= 1
getPovertyThreshold(householdSize) ==
    LET base == IF householdSize <= 8
                THEN FPL_BASE[householdSize]
                ELSE FPL_BASE[8] + (FPL_ADDITIONAL * (householdSize - 8))
    IN  base * 2

\* the largest householdSize tried
MaxHouseholdSize == 12

\* bodies with one file and an integer householdSize >= 1
FplBodies ==
    {[hasBody |-> TRUE, files |-> OneFile, householdSize |-> Size(2 * h)] :
        h \in 1..MaxHouseholdSize}
FplRequests == OneClient \X Presentable \X FplBodies

\* the 2024 schedule, as the guidelines give it
Schedule(h) ==
    CASE h = 1 -> 15060 [] h = 2 -> 20440 [] h = 3 -> 25820 [] h = 4 -> 31200
      [] h = 5 -> 36580 [] h = 6 -> 41960 [] h = 7 -> 47340 [] h = 8 -> 52720
      [] OTHER -> 52720 + 5380 * (h - 8)

\* C13: for every integer householdSize h >= 1 the server's external call is
\* made with povertyLevel = schedule[h] for h <= 8 and 52720 + 5380 * (h - 8)
\* for h > 8, and povertyThreshold = 2 * povertyLevel (1 -> 15060 / 30120,
\* 8 -> 52720 / 105440, 9 -> 58100 / 116200); the client's
\* getPovertyThreshold(h) is the same povertyThreshold.
FplThreshold ==
    /\ \A r \in FplRequests :
        LET o == AnalyzeRun(r[1], r[2], r[3])
            h == r[3].householdSize.x2 \div 2
        IN  PassedGates(r) =>
                /\ Called(o)
                /\ o.call.householdSize = r[3].householdSize
                /\ o.call.povertyLevel = Schedule(h)
                /\ o.call.povertyThreshold = 2 * Schedule(h)
                /\ o.call.povertyThreshold = getPovertyThreshold(h)
    /\ Schedule(1) = 15060 /\ getPovertyThreshold(1) = 30120
    /\ Schedule(8) = 52720 /\ getPovertyThreshold(8) = 105440
    /\ Schedule(9) = 58100 /\ getPovertyThreshold(9) = 116200

\* a request for a household of 9 passes the gates while a call is in flight,
\* and its own call carries 58100 and 116200
FplThresholdWitness ==
    /\ inflight # <<>>
    /\ \E r \in FplRequests :
        /\ r[3].householdSize = Size(18) /\ PassedGates(r)
        /\ AnalyzeRun(r[1], r[2], r[3]).call.povertyLevel = 58100
        /\ AnalyzeRun(r[1], r[2], r[3]).call.povertyThreshold = 116200

\* objects the collaborator can return: the schema's fields, fewer, more, and
\* fields named like the three local ones
CollaboratorResults ==
    {GeminiResult,
     [isEligible |-> FALSE],
     [isEligible |-> TRUE, annualIncome |-> 0, reasoning |-> "r", documentType |-> "x",
      householdSize |-> Size(14), povertyLevel |-> 1, povertyThreshold |-> 2],
     [povertyThreshold |-> 999999, note |-> "n"]}
LocalFields == {"householdSize", "povertyLevel", "povertyThreshold"}

\* C14: in every successful /api/analyze response householdSize,
\* povertyLevel and povertyThreshold are the request's householdSize and the
\* values computed before the call, whatever object the collaborator
\* returned, fields of those names included; every other field is the
\* collaborator's.
LocalFieldsWin ==
    \A i \in DOMAIN inflight, result \in CollaboratorResults :
        LET call == inflight[i]
            o == ResumeRun(call, [kind |-> "json", result |-> result])
            h == call.householdSize.x2 \div 2
        IN  /\ o.status = 200
            /\ DOMAIN o.body = DOMAIN result \cup LocalFields
            /\ o.body.householdSize = call.householdSize
            /\ o.body.povertyLevel = Schedule(h)
            /\ o.body.povertyThreshold = 2 * Schedule(h)
            /\ \A f \in DOMAIN result \ LocalFields : o.body[f] = result[f]

\* a call is in flight and the collaborator answers with its own
\* povertyLevel, which the response does not carry
LocalFieldsWinWitness ==
    \E i \in DOMAIN inflight, result \in CollaboratorResults :
        /\ "povertyLevel" \in DOMAIN result
        /\ ResumeRun(inflight[i], [kind |-> "json", result |-> result]).body.povertyLevel
             # result.povertyLevel


\* the ways the external call can fail once it has begun: generateContent
\* rejects, the text is not JSON, the response has no text
FailureOutcomes ==
    {[kind |-> "reject", result |-> [isEligible |-> FALSE]],
     [kind |-> "badjson", result |-> [isEligible |-> FALSE]],
     [kind |-> "notext", result |-> [isEligible |-> FALSE]]}

\* the request passed validation and was answered before the external call
FailedBeforeCall(o) == "apiKey" \in Range(o.gates) /\ o.status # 0

\* C15: every failure of the analysis after validation (the external call
\* throws, the collaborator's text is unparseable or empty, the API key is
\* missing) is answered 500 with the one generic "Failed to analyze
\* documents" message.
FailuresGeneric ==
    listening =>
        /\ \A r \in AnalyzeRequests :
            LET o == AnalyzeRun(r[1], r[2], r[3])
            IN  FailedBeforeCall(o) => o.status = 500 /\ o.body = GenericFailure
        /\ \A i \in DOMAIN inflight, f \in FailureOutcomes :
            LET o == ResumeRun(inflight[i], f)
            IN  o.status = 500 /\ o.body = GenericFailure

\* with the API key configured every failure after validation is generic
FailuresGenericWithKey == env.GEMINI_API_KEY => FailuresGeneric


\* bodies of POST /api/auth without a string password: no parsed body, no
\* password field, null, a number
NullValue == "<null>"
NumberValue == "<number>"
NoStringBodies ==
    {[hasBody |-> FALSE, password |-> Undefined]}
        \cup {[hasBody |-> TRUE, password |-> p] : p \in {Undefined, NullValue, NumberValue}}

\* C16: with INCOME_VERIFIER_PASSWORD unset or empty the process exits
\* before it listens: no request is handled and no token is issued in such a
\* run; so a POST /api/auth without a password field, or with a non-string
\* password, is never authenticated.
FailFast ==
    /\ ~Truthy(env.INCOME_VERIFIER_PASSWORD) =>
        /\ ~listening
        /\ issued = 0 /\ sessions = EmptyMap /\ inflight = <<>>
        /\ authAttempts = EmptyMap /\ analyzeAttempts = EmptyMap
        /\ globalApiAttempts = EmptyMap
    /\ listening =>
        \A hdr \in OneClient, b \in NoStringBodies :
            LET o == AuthRun(hdr, b)
            IN  o.status # 200 /\ o.sessions = sessions /\ o.issued = issued

\* time has passed in a run started without the password
FailFastWitness ==
    ~Truthy(env.INCOME_VERIFIER_PASSWORD) /\ ~listening /\ now = MaxTime

\* a listening server whose handler compares a body without password
FailFastListeningWitness ==
    /\ listening
    /\ \E hdr \in OneClient, b \in NoStringBodies :
        b.hasBody /\ AuthRun(hdr, b).status = 401


\* the number of requests of key that reached the analyze limiter in the
\* window of the stored entry (the history keeps the last maxAttempts)
InWindow(key) ==
    LET times == RecentAnalyze(key)
        start == analyzeAttempts[key].resetAt - ANALYZE_RATE_LIMIT.windowMs
    IN  Cardinality({i \in DOMAIN times : times[i] >= start})
Min(a, b) == IF a < b THEN a ELSE b

\* with any calls suspended at generateContent, the entry counts every
\* request of its window once, and the next request is allowed exactly when
\* fewer than maxAttempts came before it
CountedOnce ==
    \A r \in FewAnalyzeRequests :
        LET key == getClientIp(r[1])
            o == AnalyzeRun(r[1], r[2], r[3])
            max == ANALYZE_RATE_LIMIT.maxAttempts
            open == Has(analyzeAttempts, key) /\ now <= analyzeAttempts[key].resetAt
            k == IF open THEN InWindow(key) ELSE 0
        IN  /\ Has(analyzeAttempts, key) => analyzeAttempts[key].count = InWindow(key)
            /\ GlobalAllows(key) /\ TokenValid(r[2]) =>
                /\ o.analyze.allowed <=> k < max
                /\ o.analyzeAttempts[key].count = Min(k + 1, max)
                /\ Called(o) => k < max

\* a handler that resumes after its external call touches no store
ResumeTouchesNoStore ==
    Len(inflight') < Len(inflight) =>
        UNCHANGED <<authAttempts, analyzeAttempts, globalApiAttempts, sessions, issued>>

\* C17: for k concurrent requests of one client against a rate-limit store,
\* in any interleaving (synchronous sections atomic, /api/analyze suspended
\* only at the external call), min(k, maxAttempts) are allowed and the entry
\* counts min(k, maxAttempts): no request is counted twice or lost; and a
\* request touches no session or rate-limit store after its external call
\* has begun.
NoLostUpdate == []CountedOnce /\ [][ResumeTouchesNoStore]_vars

\* maxAttempts requests of one client are suspended at the external call,
\* the entry counts them, and the client's next request is refused
NoLostUpdateWitness ==
    \E key \in Keys :
        /\ Len(inflight) = ANALYZE_RATE_LIMIT.maxAttempts
        /\ \A i \in DOMAIN inflight : inflight[i].key = key
        /\ Has(analyzeAttempts, key) /\ now <= analyzeAttempts[key].resetAt
        /\ analyzeAttempts[key].count = ANALYZE_RATE_LIMIT.maxAttempts
        /\ InWindow(key) = ANALYZE_RATE_LIMIT.maxAttempts
        /\ ~AnalyzeAllows(key)


\* the entries of a store whose resetAt is not before now, and the sessions
\* whose expiry is not before now
NotBefore(store) == [k \in {x \in DOMAIN store : store[x].resetAt >= now} |-> store[k]]
SessionsNotBefore(s) == [k \in {x \in DOMAIN s : s[x] >= now} |-> s[k]]

\* what the next stage and the client see of a stage's outcome
Response(o) == [status |-> o.status, headers |-> o.headers, body |-> o.body]

\* every stage of every request decides and answers the same after the step
\* as before it, and leaves the same entries and sessions that are not
\* before now: the global middleware, requireAuth, and the two handlers
\* behind them (a request's answer is composed of these, see AuthRun and
\* AnalyzeRun)
SameAnswers ==
    /\ \A key \in Keys :
       \A before \in {GlobalMiddleware(key)}, after \in {GlobalMiddleware(key)'} :
        /\ after.next = before.next
        /\ after.result = before.result
        /\ Response(after) = Response(before)
        /\ NotBefore(after.store) = NotBefore(before.store)
    /\ \A a \in AuthorizationValues :
       \A before \in {requireAuth(a)}, after \in {requireAuth(a)'} :
        /\ after.next = before.next
        /\ after.status = before.status
        /\ after.body = before.body
        /\ SessionsNotBefore(after.sessions) = SessionsNotBefore(before.sessions)
    /\ \A key \in Keys, b \in AuthBodies :
       \A headers \in {GlobalMiddleware(key).headers} :
       \A before \in {AuthHandler(b, key, headers)},
          after \in {AuthHandler(b, key, headers)'} :
        /\ Response(after) = Response(before)
        /\ after.issued = before.issued
        /\ NotBefore(after.authAttempts) = NotBefore(before.authAttempts)
        /\ SessionsNotBefore(after.sessions) = SessionsNotBefore(before.sessions)
    /\ \A key \in Keys, b \in FewBodies :
       \A headers \in {GlobalMiddleware(key).headers} :
       \A before \in {AnalyzeHandler(b, key, headers)},
          after \in {AnalyzeHandler(b, key, headers)'} :
        /\ Response(after) = Response(before)
        /\ after.result = before.result
        /\ after.call = before.call
        /\ NotBefore(after.analyzeAttempts) = NotBefore(before.analyzeAttempts)

SweepIsCleanup ==
    /\ SweepRateLimits =>
        /\ authAttempts' = NotBefore(authAttempts)
        /\ analyzeAttempts' = NotBefore(analyzeAttempts)
        /\ globalApiAttempts' = NotBefore(globalApiAttempts)
        /\ \A key \in Keys :
            /\ Has(globalApiAttempts, key) /\ ~Has(globalApiAttempts', key)
                => GlobalAllows(key)
            /\ Has(analyzeAttempts, key) /\ ~Has(analyzeAttempts', key)
                => AnalyzeAllows(key)
            /\ Has(authAttempts, key) /\ ~Has(authAttempts', key)
                => ~AuthLimiter(key).denied
        /\ SameAnswers
    /\ SweepSessions =>
        /\ sessions' = SessionsNotBefore(sessions)
        /\ \A a \in Presentable : TokenValid(a) => Has(sessions', a.token)
        /\ SameAnswers

\* C18: a rate-limit sweep at time t removes exactly the entries with
\* resetAt < t from the three stores and a session sweep exactly the sessions
\* with expiry < t; neither removes a live entry or a valid session, and
\* every request is answered the same (status, headers with the remaining
\* count and Retry-After, body, token validity) whether or not a sweep ran.
SweepInvisible == [][SweepIsCleanup]_vars

\* a sweep has removed the analyze entry of a client whose requests the
\* history records, and has kept the client's global entry
SweepInvisibleWitness ==
    \E key \in Keys :
        /\ Has(analyzeTimes, key) /\ ~Has(analyzeAttempts, key)
        /\ Has(globalApiAttempts, key)


TwoKeys == {getClientIp(hdr) : hdr \in TwoClients}

\* the two maps hold the same entries under every key but key
OtherEntriesSame(after, before, key) ==
    \A k \in (DOMAIN after \cup DOMAIN before) \ {key} :
        Has(after, k) /\ Has(before, k) /\ after[k] = before[k]

\* a request changes no entry of another client, and a successful login
\* removes the client's auth entry and nothing else, its global entry being
\* the one the middleware counted the request in
FrameOfRequests ==
    \A hdr \in TwoClients :
        /\ \A b \in AuthBodies :
            LET o == AuthRun(hdr, b)
            IN  /\ OtherEntriesSame(o.globalApiAttempts, globalApiAttempts, o.key)
                /\ OtherEntriesSame(o.authAttempts, authAttempts, o.key)
                /\ o.status = 200 =>
                    /\ o.authAttempts = Delete(authAttempts, o.key)
                    /\ o.globalApiAttempts
                         = checkRateLimit(globalApiAttempts, o.key,
                                          GLOBAL_API_RATE_LIMIT, now).store
        /\ \A a \in Presentable, b \in FewBodies :
            LET o == AnalyzeRun(hdr, a, b)
            IN  /\ OtherEntriesSame(o.globalApiAttempts, globalApiAttempts, o.key)
                /\ OtherEntriesSame(o.analyzeAttempts, analyzeAttempts, o.key)

\* a step of a request on one policy's store leaves the other policy's
\* store alone; a login leaves the analyze store alone
StoresIndependent ==
    /\ authAttempts' # authAttempts /\ ~SweepRateLimits
        => analyzeAttempts' = analyzeAttempts
    /\ analyzeAttempts' # analyzeAttempts /\ ~SweepRateLimits
        => authAttempts' = authAttempts
    /\ issued' # issued => analyzeAttempts' = analyzeAttempts

WrongBodies ==
    {[hasBody |-> FALSE, password |-> Undefined]}
        \cup {[hasBody |-> TRUE, password |-> p] :
                p \in {Undefined, NullValue, NumberValue, "", "guess"}}

\* the request is refused by neither limiter
AuthNotLimited(key) == GlobalAllows(key) /\ ~AuthLimiter(key).denied

InvalidPassword == [success |-> FALSE, error |-> "Invalid password"]

\* every body of the set is answered 401 'Invalid password' when it is not
\* rate-limited, and any two of them get the same response and leave the
\* same stores
AnsweredAlike(Bodies) ==
    \A hdr \in OneClient, b1 \in Bodies, b2 \in Bodies :
        LET o1 == AuthRun(hdr, b1)
            o2 == AuthRun(hdr, b2)
        IN  /\ AuthNotLimited(getClientIp(hdr)) =>
                o1.status = 401 /\ o1.body = InvalidPassword
            /\ o1 = o2

\* C20: every POST /api/auth whose password does not match and that is not
\* rate-limited gets the identical response 401
\* {success: false, error: 'Invalid password'}, whatever was submitted
\* (absent, wrong type, empty, wrong string), and requests that differ only in
\* the wrong value leave the same stores.
WrongPasswordsAlike == AnsweredAlike(WrongBodies)

\* the same for the requests whose body was parsed
WrongPasswordsAlikeParsed == AnsweredAlike({b \in WrongBodies : b.hasBody})


\* an auth entry at or past its resetAt denies nothing, a denied attempt
\* leaves the entry as it is, and no entry ends later than windowMs from now
LockoutOpen ==
    \A key \in Keys :
        /\ Has(authAttempts, key) /\ now >= authAttempts[key].resetAt
            => ~AuthLimiter(key).denied
        /\ AuthLimiter(key).denied => AuthLimiter(key).store = authAttempts
        /\ Has(authAttempts, key)
            => authAttempts[key].resetAt <= now + AUTH_RATE_LIMIT.windowMs

\* the resetAt of an auth entry moves only when the entry has run out: a
\* window ends windowMs after its first attempt
LockoutFixed ==
    \A key \in Keys :
        /\ Has(authAttempts, key) /\ Has(authAttempts', key)
        /\ authAttempts'[key].resetAt # authAttempts[key].resetAt
        => /\ now >= authAttempts[key].resetAt
           /\ authAttempts'[key] = [count |-> 1, resetAt |-> now + AUTH_RATE_LIMIT.windowMs]

\* C21: after POST /api/auth answered 429 for a client, an auth request of
\* that client at any time >= the entry's resetAt is not denied by the auth
\* limiter, however many denied attempts came in between: a lockout ends,
\* without a restart, at most windowMs after the first attempt of its
\* window.
LockoutEnds == []LockoutOpen /\ [][LockoutFixed]_vars

\* a full auth entry has reached its resetAt and the client's wrong password
\* is answered 401 again
LockoutEndsWitness ==
    \E hdr \in OneClient :
        /\ Has(authAttempts, getClientIp(hdr))
        /\ authAttempts[getClientIp(hdr)].count = AUTH_RATE_LIMIT.maxAttempts
        /\ now >= authAttempts[getClientIp(hdr)].resetAt
        /\ AuthRun(hdr, [hasBody |-> TRUE, password |-> "guess"]).status = 401


\* the origins a browser can send a request from
ProductionOrigin == "https://income.wxworks.org"
Origins == {ProductionOrigin, "https://staff.example", "https://evil.example"}

\* a browser lets a page of origin read the response
CrossOriginAllowed(origin) == AccessControlAllowOrigin(origin) = origin

\* C22: with CORS_ORIGIN unset the server allows cross-origin API access
\* only from https://income.wxworks.org; with CORS_ORIGIN set, only from the
\* configured origin.
CorsRestricted ==
    listening =>
        \A origin \in Origins :
            CrossOriginAllowed(origin) =>
                origin = IF Truthy(env.CORS_ORIGIN) THEN env.CORS_ORIGIN
                         ELSE ProductionOrigin

\* with CORS_ORIGIN set, access is allowed from the configured origin only
CorsRestrictedWhenSet == Truthy(env.CORS_ORIGIN) => CorsRestricted


\* src/constants.ts, imported by the serverless handler src/api/analyze.ts
constants_FEDERAL_POVERTY_LEVELS ==
    <<15650, 21150, 26650, 32150, 37650, 43150, 48650, 54150>>
constants_FPL_ADDITIONAL_PERSON_AMOUNT == 5500

\* povertyLevel of the serverless handler for an integer householdSize >= 1
HandlerPovertyLevel(householdSize) ==
    IF householdSize <= 8
    THEN constants_FEDERAL_POVERTY_LEVELS[householdSize]
    ELSE constants_FEDERAL_POVERTY_LEVELS[8]
            + (constants_FPL_ADDITIONAL_PERSON_AMOUNT * (householdSize - 8))

\* the README's table of the 2024 guidelines
ReadmeTable == <<15060, 20440, 25820, 31200, 36580, 41960, 47340, 52720>>
ReadmeAdditional == 5380

\* the schedules of the Express server and of the client are the README's
ServerAndClientMatchReadme ==
    /\ FEDERAL_POVERTY_LEVELS = ReadmeTable
    /\ FPL_ADDITIONAL_PERSON_AMOUNT = ReadmeAdditional
    /\ FPL_BASE = ReadmeTable
    /\ FPL_ADDITIONAL = ReadmeAdditional

\* C23: every FPL schedule defined in the source (the Express server's
\* FEDERAL_POVERTY_LEVELS, the constants of src/constants.ts, the client's
\* FPL_BASE) holds the README's 2024 table, sizes 1..8 mapping to 15060,
\* 20440, 25820, 31200, 36580, 41960, 47340, 52720, with 5380 for each
\* additional person.
SchedulesMatchReadme ==
    /\ ServerAndClientMatchReadme
    /\ constants_FEDERAL_POVERTY_LEVELS = ReadmeTable
    /\ constants_FPL_ADDITIONAL_PERSON_AMOUNT = ReadmeAdditional
    /\ \A h \in 1..MaxHouseholdSize :
        \A r \in {x \in FplRequests : x[3].householdSize = Size(2 * h)} :
            LET o == AnalyzeRun(r[1], r[2], r[3])
            IN  Called(o) => HandlerPovertyLevel(h) = o.call.povertyLevel


\* every entry of the store is within its policy
EntriesWithin(store, config) ==
    \A key \in DOMAIN store :
        /\ store[key].count >= 1
        /\ store[key].count <= config.maxAttempts
        /\ store[key].resetAt <= now + config.windowMs

SameAsGeneric(key) ==
    LET inline == AuthLimiter(key)
        generic == checkRateLimit(authAttempts, key, AUTH_RATE_LIMIT, now)
    IN  /\ inline.denied <=> ~generic.result.allowed
        /\ inline.store = generic.store
        /\ inline.denied => inline.retryAfter = generic.result.retryAfter

\* C25: for every sequence of failed POST /api/auth attempts of one client
\* at arbitrary times, the inline auth limiter decides as
\* checkRateLimit(authAttempts, ip, AUTH_RATE_LIMIT) would and leaves the
\* same (count, resetAt) entry; the two differ only in that a successful
\* login deletes the entry.
LimitersAgree == \A key \in Keys : SameAsGeneric(key)

\* the two agree except at the instant now = resetAt
LimitersAgreeOffBoundary ==
    \A key \in Keys :
        ~(Has(authAttempts, key) /\ now = authAttempts[key].resetAt)
            => SameAsGeneric(key)


\* the client refuses householdSize < 1 || householdSize > 20 before it
\* sends anything
ClientMaxHouseholdSize == 20
ClientAccepts(householdSize) ==
    ~(householdSize < 1 \/ householdSize > ClientMaxHouseholdSize)

\* bodies with one file and a household size around the client's maximum
LargeSizes == {ClientMaxHouseholdSize, ClientMaxHouseholdSize + 1, 100}
LargeBodies ==
    {[hasBody |-> TRUE, files |-> OneFile, householdSize |-> Size(2 * h)] : h \in LargeSizes}
LargeRequests == OneClient \X Presentable \X LargeBodies

\* C26: the Express server accepts a householdSize only in 1..20: a POST
\* /api/analyze with householdSize > 20 is answered 400 and makes no
\* external call.
UpperBoundEnforced ==
    \A r \in LargeRequests :
        LET o == AnalyzeRun(r[1], r[2], r[3])
            h == r[3].householdSize.x2 \div 2
        IN  PassedGates(r) /\ ~ClientAccepts(h) => o.status = 400 /\ ~Called(o)

\* what the server does instead: every size >= 1 that passed the gates is
\* sent to the collaborator
UpperBoundAbsent ==
    \A r \in LargeRequests :
        LET o == AnalyzeRun(r[1], r[2], r[3])
            h == r[3].householdSize.x2 \div 2
        IN  PassedGates(r) =>
                Called(o) /\ o.call.povertyLevel = Schedule(h)


\* the body passes both validation tests of the handler
Validated(b) == b.hasBody /\ ~FilesInvalid(b.files) /\ ~HouseholdSizeInvalid(b.householdSize)

\* the request passed the gates and validation and reached the external call
\* with a povertyThreshold twice its povertyLevel
ReachesCall(r) ==
    LET o == AnalyzeRun(r[1], r[2], r[3])
    IN  /\ o.status # 500
        /\ Called(o)
        /\ o.call.povertyThreshold = 2 * o.call.povertyLevel

\* C27: with the API key configured, every body that passes validation
\* yields a defined numeric povertyLevel and povertyThreshold = 2 x
\* povertyLevel (every accepted householdSize <= 8 is a key of the
\* schedule), so no validated request fails with 500 before the external
\* call.
ValidatedNeverFails ==
    env.GEMINI_API_KEY =>
        \A r \in AnalyzeRequests :
            PassedGates(r) /\ Validated(r[3]) => ReachesCall(r)

\* the same for the bodies whose householdSize is an integer
ValidatedIntegersNeverFail ==
    env.GEMINI_API_KEY =>
        \A r \in AnalyzeRequests :
            /\ PassedGates(r) /\ Validated(r[3])
            /\ r[3].householdSize.x2 % 2 = 0
            => ReachesCall(r)


\* a token in the store that has not run out is accepted, and no request
\* touches the session of a token it does not present: a login adds its own
\* token and nothing else, a request with a token leaves every other token
SessionsKept ==
    /\ \A r \in AuthRequests :
        LET o == AuthRun(r[1], r[2])
        IN  /\ \A t \in DOMAIN sessions : Has(o.sessions, t) /\ o.sessions[t] = sessions[t]
            /\ o.status # 200 => o.sessions = sessions
    /\ \A r \in FewAnalyzeRequests :
        LET o == AnalyzeRun(r[1], r[2], r[3])
            accepted == "analyzeLimit" \in Range(o.gates)
        IN  /\ \A t \in DOMAIN sessions \ {r[2].token} :
                Has(o.sessions, t) /\ o.sessions[t] = sessions[t]
            /\ \A t \in DOMAIN o.sessions : Has(sessions, t) /\ o.sessions[t] = sessions[t]
            /\ /\ GlobalAllows(getClientIp(r[1])) /\ r[2].kind = "bearer"
               /\ Has(sessions, r[2].token) /\ now <= sessions[r[2].token]
               => accepted
            /\ r[2].kind = "bearer" /\ r[2].token \in 1..issued /\ ~Has(sessions, r[2].token)
               => ~accepted
    /\ \A t \in DOMAIN sessions : t \in 1..issued /\ sessions[t] <= now + SESSION_TTL

\* the lifecycle of a session: its expiry is fixed, it leaves the store only
\* after its expiry, and a token that left does not come back
SessionsLifecycle ==
    \A t \in 1..MoreTokens :
        /\ Has(sessions, t) /\ Has(sessions', t) => sessions'[t] = sessions[t]
        /\ Has(sessions, t) /\ ~Has(sessions', t) => now > sessions[t]
        /\ ~Has(sessions, t) /\ Has(sessions', t) =>
            /\ t = issued + 1 /\ issued' = t
            /\ sessions'[t] = now + SESSION_TTL
        /\ now' >= now

\* C28: a session's expiry never changes after issuance, and a token leaves
\* the store only through requireAuth or the sweep at a time now > expiry;
\* so every issued token is accepted on every request in [issuance, expiry],
\* issuing further tokens never invalidates an earlier one, and a token once
\* rejected is rejected on every later request.
SessionsFixed == []SessionsKept /\ [][SessionsLifecycle]_vars

\* an earlier token has run out and is still in the store, a later token is
\* valid and a request presenting it is accepted
SessionsFixedWitness ==
    \E r \in FewAnalyzeRequests :
        /\ r[2].kind = "bearer" /\ r[2].token = 2
        /\ Has(sessions, 1) /\ Has(sessions, 2)
        /\ now > sessions[1] /\ now <= sessions[2]
        /\ "analyzeLimit" \in Range(AnalyzeRun(r[1], r[2], r[3]).gates)


\* the store after one more request of key was counted under the policy:
\* one added to the entry of an open window, a new entry otherwise
CountedIn(store, key, config) ==
    IF Has(store, key) /\ now <= store[key].resetAt
    THEN [store EXCEPT ![key].count = @ + 1]
    ELSE Put(store, key, [count |-> 1, resetAt |-> now + config.windowMs])

\* C29: quota is consumed at the gate where a request is counted, not where
\* it succeeds: every /api request that the global limiter lets through adds
\* one to the caller's global counter, also when it is then answered 401,
\* 400 or an auth or analyze 429; an authenticated /api/analyze request adds
\* one to the analyze counter before its body is validated, so a request
\* answered 400 or 500 has used one of the client's analyses; a request
\* refused by the global limiter or by requireAuth leaves analyzeAttempts
\* as it is.
QuotaAtGate ==
    /\ \A r \in AuthRequests :
        LET key == getClientIp(r[1])
            o == AuthRun(r[1], r[2])
        IN  IF GlobalAllows(key)
            THEN o.globalApiAttempts = CountedIn(globalApiAttempts, key, GLOBAL_API_RATE_LIMIT)
            ELSE o.globalApiAttempts = globalApiAttempts /\ o.status = 429
    /\ \A r \in AnalyzeRequests :
        LET key == getClientIp(r[1])
            o == AnalyzeRun(r[1], r[2], r[3])
        IN  /\ IF GlobalAllows(key)
               THEN o.globalApiAttempts
                        = CountedIn(globalApiAttempts, key, GLOBAL_API_RATE_LIMIT)
               ELSE o.globalApiAttempts = globalApiAttempts /\ o.status = 429
            /\ ~GlobalAllows(key) \/ ~TokenValid(r[2]) =>
                o.analyzeAttempts = analyzeAttempts
            /\ PassedGates(r) =>
                /\ o.analyzeAttempts = CountedIn(analyzeAttempts, key, ANALYZE_RATE_LIMIT)
                /\ o.status \in {0, 400, 500}
            /\ GlobalAllows(key) /\ TokenValid(r[2]) /\ ~AnalyzeAllows(key) =>
                o.analyzeAttempts = analyzeAttempts /\ o.status = 429

\* a request with an invalid body is answered 400 and takes the last
\* analysis of the client's window
QuotaAtGateWitness ==
    \E r \in AnalyzeRequests :
        LET key == getClientIp(r[1])
            o == AnalyzeRun(r[1], r[2], r[3])
        IN  /\ o.status = 400
            /\ Has(analyzeAttempts, key)
            /\ o.analyzeAttempts[key].count = ANALYZE_RATE_LIMIT.maxAttempts
            /\ o.analyzeAttempts[key].count = analyzeAttempts[key].count + 1
            /\ o.globalApiAttempts # globalApiAttempts


\* the headers and addresses a request can carry: the same connection with
\* two cf-connecting-ip values, an empty cf-connecting-ip, x-forwarded-for
\* lists with and without blanks, the connection address alone, no address
AllHeaders ==
    ThreeHeaders
        \cup {[cf |-> "c", xff |-> <<>>, ip |-> "b"],
              [cf |-> "c", xff |-> <<" b ", "c">>, ip |-> "b"],
              [cf |-> "", xff |-> <<>>, ip |-> "b"],
              [cf |-> Undefined, xff |-> <<" b ", "c">>, ip |-> "a"],
              [cf |-> Undefined, xff |-> <<" a">>, ip |-> Undefined],
              [cf |-> Undefined, xff |-> <<"c">>, ip |-> "b"],
              [cf |-> Undefined, xff |-> <<>>, ip |-> "b"]}

\* the key as the claim gives it
KeyOf(r) ==
    CASE r.cf # Undefined -> r.cf
      [] r.cf = Undefined /\ r.xff # <<>> ->
            (CASE r.xff[1] = " b " -> "b" [] r.xff[1] = " a" -> "a" [] OTHER -> r.xff[1])
      [] r.cf = Undefined /\ r.xff = <<>> /\ r.ip \notin {Undefined, ""} -> r.ip
      [] OTHER -> "unknown"

\* C30: the key under which a request is counted in all three limiters is
\* getClientIp(req): cf-connecting-ip if it is a string, else the first
\* element of x-forwarded-for, trimmed, else req.ip, else 'unknown'; so
\* requests of one connection with different cf-connecting-ip values are
\* counted under different keys and do not affect each other's limits, and
\* all requests without a determinable address share the key 'unknown'.
CountedUnderClientIp ==
    \A hdr \in AllHeaders :
        LET key == KeyOf(hdr)
        IN  /\ getClientIp(hdr) = key
            /\ \A b \in AuthBodies :
                LET o == AuthRun(hdr, b)
                IN  /\ OtherEntriesSame(o.globalApiAttempts, globalApiAttempts, key)
                    /\ OtherEntriesSame(o.authAttempts, authAttempts, key)
                    /\ o.status # 429 =>
                        o.globalApiAttempts
                            = CountedIn(globalApiAttempts, key, GLOBAL_API_RATE_LIMIT)
                    /\ o.status = 401 =>
                        /\ Has(o.authAttempts, key)
                        /\ o.authAttempts # authAttempts
            /\ \A a \in Presentable, b \in FewBodies :
                LET o == AnalyzeRun(hdr, a, b)
                IN  /\ OtherEntriesSame(o.globalApiAttempts, globalApiAttempts, key)
                    /\ OtherEntriesSame(o.analyzeAttempts, analyzeAttempts, key)
                    /\ "analyzeLimit" \in Range(o.gates) /\ o.status # 429 =>
                        o.analyzeAttempts
                            = CountedIn(analyzeAttempts, key, ANALYZE_RATE_LIMIT)

\* the key 'unknown' is refused by the auth limiter while the client with
\* cf-connecting-ip is not, and a request of the other address-less kind is
\* refused with it
CountedUnderClientIpWitness ==
    /\ Has(authAttempts, "unknown") /\ Has(authAttempts, "a")
    /\ AuthLimiter("unknown").denied /\ ~AuthLimiter("a").denied
    /\ GlobalAllows("unknown")
    /\ \A hdr \in {h \in ThreeHeaders : h.cf = Undefined} :
        AuthRun(hdr, [hasBody |-> TRUE, password |-> "guess"]).status = 429

====
